---- MODULE Spec2Model ----
(***************************************************************************)
(* A model of src/main.py: a minimal git client (loose object store,       *)
(* packfile decoder with delta resolution, smart-HTTP clone pipeline).     *)
(*                                                                         *)
(* Bytes are integers 0..255, byte strings are sequences of bytes.         *)
(* Python offsets are 0-based: data[offset] is written At(data, offset).   *)
(* SHA-1 is modelled as an injective map and zlib as a lossless container  *)
(* (see the sections on loose objects and on pack records).                *)
(***************************************************************************)
EXTENDS Integers, Sequences, FiniteSets, TLC

VARIABLES
    \* ---- apply_delta harness (specification SpecDelta)
    dBase,      \* base_data handed to apply_delta
    dDelta,     \* delta_data handed to apply_delta
    dInstrs,    \* the instruction list dDelta was encoded from (<<>> for raw deltas)
    dShape,     \* how the two header sizes were declared when the delta was built
    dRes,       \* outcome of the call: [status, result], status "none" before it
    dPc,        \* "call" before apply_delta runs, "done" after
    \* ---- the repository on disk
    objects,    \* .git/objects: hex id |-> [z, data, writes], one entry per file
    workdir,    \* the directory write-tree snapshots: a set of directory entries
    \* ---- plumbing commands (specification SpecStore)
    cmdOut,     \* what the last command or call did: [cmd, status, sha, obj_type, content, trees]
    nCmds,      \* number of commands run so far
    \* ---- clone_repository (specification Spec)
    pc,                 \* the step clone_repository is at
    refs_data,          \* body of the GET info/refs response, as pkt-line frames
    head_sha,           \* head_sha (<<>> is None)
    request_body,       \* body of the POST git-upload-pack request (<<>>: none sent)
    pack_response,      \* body of its response, as pkt-line frames
    pack_data,          \* the band-1 bytes: a sequence of pack elements
    clone_num_objects,  \* num_objects: the object count of the pack header
    clone_offset,       \* offset: where the next record starts in pack_data
    clone_by_offset,    \* objects_by_offset: start offset |-> resolved content
    unpacked,           \* one entry per unpack_object call that returned
    head_file,          \* content of .git/HEAD (<<>>: not written)
    ref_file,           \* content of .git/refs/heads/main (<<>>: not written)
    worktree,           \* what checkout did: "none", "started", "done"
    exit                \* how the run ended: "running", "success", "returned", or an exception

dvars == <<dBase, dDelta, dInstrs, dShape, dRes, dPc>>
svars == <<workdir, cmdOut, nCmds>>
cvars == <<pc, refs_data, head_sha, request_body, pack_response, pack_data,
           clone_num_objects, clone_offset, clone_by_offset, unpacked, head_file,
           ref_file, worktree, exit>>

vars == <<dvars, objects, svars, cvars>>

----------------------------------------------------------------------------
(* Byte-string helpers: Python indexing and slicing.                       *)

Min(a, b) == IF a < b THEN a ELSE b

\* data[offset] for a 0-based offset
At(data, offset) == data[offset + 1]

\* data[lo:hi] with Python's clamping of both ends
Slice(data, lo, hi) == SubSeq(data, lo + 1, Min(hi, Len(data)))

\* b & mask # 0 for a one-bit mask
Bit(b, mask) == (b \div mask) % 2 = 1

\* data.startswith(prefix)
StartsWith(data, prefix) ==
    /\ Len(data) >= Len(prefix)
    /\ SubSeq(data, 1, Len(prefix)) = prefix

\* byte in data
Contains(data, byte) == \E i \in 1..Len(data) : data[i] = byte

----------------------------------------------------------------------------
(* read_varint: the MSB-format varint, value = ((value + 1) << 7) | low7.  *)
(* ok = FALSE is the IndexError of reading past the end of data.           *)

RECURSIVE read_varint_loop(_, _, _, _)
read_varint_loop(data, byte, value, offset) ==
    IF ~Bit(byte, 128)
    THEN [ok |-> TRUE, value |-> value, offset |-> offset]
    ELSE IF offset >= Len(data)
    THEN [ok |-> FALSE, value |-> 0, offset |-> offset]
    ELSE LET b == At(data, offset)
         IN  read_varint_loop(data, b, (value + 1) * 128 + (b % 128), offset + 1)

read_varint(data, offset) ==
    IF offset >= Len(data)
    THEN [ok |-> FALSE, value |-> 0, offset |-> offset]
    ELSE LET byte == At(data, offset)
         IN  read_varint_loop(data, byte, byte % 128, offset + 1)

----------------------------------------------------------------------------
(* apply_delta.  A copy instruction reads its operand bytes in bit order   *)
(* 0x01..0x40; bits 0..3 select offset bytes, bits 4..6 select size bytes. *)

Pow2(k) == 2 ^ k
Pow256(k) == 256 ^ k

RECURSIVE read_copy_args(_, _, _, _, _, _)
read_copy_args(delta, instruction, k, offset, cp_offset, cp_size) ==
    IF k > 6
    THEN [ok |-> TRUE, offset |-> offset, cp_offset |-> cp_offset, cp_size |-> cp_size]
    ELSE IF ~Bit(instruction, Pow2(k))
    THEN read_copy_args(delta, instruction, k + 1, offset, cp_offset, cp_size)
    ELSE IF offset >= Len(delta)
    THEN [ok |-> FALSE, offset |-> offset, cp_offset |-> 0, cp_size |-> 0]
    ELSE LET v == At(delta, offset)
         IN  IF k < 4
             THEN read_copy_args(delta, instruction, k + 1, offset + 1,
                                 cp_offset + v * Pow256(k), cp_size)
             ELSE read_copy_args(delta, instruction, k + 1, offset + 1,
                                 cp_offset, cp_size + v * Pow256(k - 4))

\* (mutation of copy_size: a zero size is left as it is)
copy_size_keeps_zero(cp_size) == cp_size

\* if cp_size == 0: cp_size = 0x10000
copy_size(cp_size) == IF cp_size = 0 THEN 65536 ELSE cp_size

RECURSIVE apply_delta_loop(_, _, _, _)
apply_delta_loop(base_data, delta_data, offset, result) ==
    IF offset >= Len(delta_data)
    THEN [status |-> "ok", result |-> result]
    ELSE LET instruction == At(delta_data, offset)
         IN  IF Bit(instruction, 128)
             THEN LET a == read_copy_args(delta_data, instruction, 0, offset + 1, 0, 0)
                      size == copy_size(a.cp_size)
                  IN  IF ~a.ok
                      THEN [status |-> "IndexError", result |-> <<>>]
                      ELSE apply_delta_loop(base_data, delta_data, a.offset,
                               result \o Slice(base_data, a.cp_offset, a.cp_offset + size))
             ELSE IF instruction = 0
             THEN [status |-> "ValueError", result |-> <<>>]
             ELSE apply_delta_loop(base_data, delta_data, offset + 1 + instruction,
                      result \o Slice(delta_data, offset + 1, offset + 1 + instruction))

\* The two header sizes are read with read_varint and never compared with
\* anything; the instruction loop starts right after them.
apply_delta(base_data, delta_data) ==
    LET b == read_varint(delta_data, 0)
        r == read_varint(delta_data, b.offset)
    IN  IF ~b.ok \/ ~r.ok
        THEN [status |-> "IndexError", result |-> <<>>]
        ELSE apply_delta_loop(base_data, delta_data, r.offset, <<>>)

----------------------------------------------------------------------------
(* Test vectors for apply_delta: deltas are encoded from instruction lists *)
(* by a reference encoder (header sizes as little-endian 7-bit varints).   *)

MaxInstr == 3        \* longest instruction list drawn
LongBaseLen == 300   \* length of the long base (sizes >= 128, offsets >= 256)

ShortBase == <<97, 98, 99, 100, 101, 102, 103, 104, 105, 106>>   \* "abcdefghij"
LongBase == [i \in 1..LongBaseLen |-> (i * 7) % 256]

BaseSet == {ShortBase, LongBase}

Copy(off, size, wide) ==
    [op |-> "copy", off |-> off, size |-> size, wide |-> wide, lit |-> <<>>]
Insert(lit) ==
    [op |-> "insert", off |-> 0, size |-> 0, wide |-> FALSE, lit |-> lit]

InstrSet ==
    { Copy(2, 3, FALSE), Copy(7, 3, FALSE), Insert(<<88, 89>>),
      Copy(0, 0, FALSE), Copy(258, 200, FALSE), Copy(2, 3, TRUE) }

RECURSIVE SeqsUpTo(_, _)
SeqsUpTo(S, n) ==
    IF n = 0 THEN {<<>>}
    ELSE LET shorter == SeqsUpTo(S, n - 1)
         IN  shorter \cup {Append(q, x) : q \in shorter, x \in S}

\* little-endian 7-bit continuation varint of n
RECURSIVE EncodeSize(_)
EncodeSize(n) ==
    IF n < 128 THEN <<n>> ELSE <<128 + (n % 128)>> \o EncodeSize(n \div 128)

\* the value a little-endian 7-bit continuation varint at the head of data declares,
\* and the offset of the byte after it
RECURSIVE DecodeSize(_, _, _, _)
DecodeSize(data, offset, shift, value) ==
    IF offset >= Len(data) THEN [value |-> -1, offset |-> offset]
    ELSE LET b == At(data, offset)
             v == value + (b % 128) * shift
         IN  IF Bit(b, 128) THEN DecodeSize(data, offset + 1, shift * 128, v)
             ELSE [value |-> v, offset |-> offset + 1]

DeclaredBaseSize(delta) == DecodeSize(delta, 0, 1, 0).value
DeclaredResultSize(delta) ==
    DecodeSize(delta, DecodeSize(delta, 0, 1, 0).offset, 1, 0).value

ByteOf(n, k) == (n \div Pow256(k)) % 256

RECURSIVE OperandBytes(_, _, _, _)
OperandBytes(n, k, count, wide) ==
    IF k >= count THEN <<>>
    ELSE (IF wide \/ ByteOf(n, k) # 0 THEN <<ByteOf(n, k)>> ELSE <<>>)
         \o OperandBytes(n, k + 1, count, wide)

RECURSIVE OperandMask(_, _, _, _, _)
OperandMask(n, k, count, wide, bit) ==
    IF k >= count THEN 0
    ELSE (IF wide \/ ByteOf(n, k) # 0 THEN bit ELSE 0)
         + OperandMask(n, k + 1, count, wide, bit * 2)

EncodeInstr(i) ==
    IF i.op = "copy"
    THEN <<128 + OperandMask(i.off, 0, 4, i.wide, 1) + OperandMask(i.size, 0, 3, i.wide, 16)>>
         \o OperandBytes(i.off, 0, 4, i.wide) \o OperandBytes(i.size, 0, 3, i.wide)
    ELSE <<Len(i.lit)>> \o i.lit

RECURSIVE EncodeInstrs(_)
EncodeInstrs(instrs) ==
    IF instrs = <<>> THEN <<>>
    ELSE EncodeInstr(Head(instrs)) \o EncodeInstrs(Tail(instrs))

\* what the instruction list denotes: the concatenation, in order, of the
\* copied base ranges and the inserted literals
RECURSIVE Expected(_, _)
Expected(base, instrs) ==
    IF instrs = <<>> THEN <<>>
    ELSE LET i == Head(instrs)
             size == IF i.size = 0 THEN 65536 ELSE i.size
         IN  (IF i.op = "copy" THEN Slice(base, i.off, i.off + size) ELSE i.lit)
             \o Expected(base, Tail(instrs))

ShapeSet == {"exact", "base_off", "result_off"}

BuildDelta(base, instrs, shape) ==
    EncodeSize(Len(base) + (IF shape = "base_off" THEN 1 ELSE 0))
    \o EncodeSize(Len(Expected(base, instrs)) + (IF shape = "result_off" THEN 1 ELSE 0))
    \o EncodeInstrs(instrs)

\* deltas that are not well formed: empty, header only cut short, instruction 0,
\* copy with a missing operand byte
RawDeltaSet ==
    { <<>>, <<138>>, <<10, 3, 0>>, <<10, 3, 145, 2>> }

----------------------------------------------------------------------------
(* Loose objects.  An object file holds zlib.compress(obj_data) with       *)
(* obj_data = b"<kind> <len>\x00<content>".  hashlib.sha1 is modelled as   *)
(* injective: the raw digest of data stands for data itself, so a digest   *)
(* is as long as what it hashes instead of 20 bytes; an object id is the   *)
(* hex text of the digest.                                                 *)

b_blob == <<98, 108, 111, 98>>               \* b"blob"
b_tree == <<116, 114, 101, 101>>             \* b"tree"
b_commit == <<99, 111, 109, 109, 105, 116>>  \* b"commit"
b_tag == <<116, 97, 103>>                    \* b"tag"

\* b"%d" % n
RECURSIVE Decimal(_)
Decimal(n) ==
    IF n < 10 THEN <<48 + n>> ELSE Decimal(n \div 10) \o <<48 + (n % 10)>>

\* b"%s %d\x00%s" % (kind, len(content), content)
object_data(kind, content) ==
    kind \o <<32>> \o Decimal(Len(content)) \o <<0>> \o content

\* hashlib.sha1(data).digest(): injective, the digest stands for data
sha1_digest(data) == data

HexDigit(n) == IF n < 10 THEN 48 + n ELSE 87 + n
HexValue(c) == IF c < 58 THEN c - 48 ELSE c - 87

\* raw.hex(): two lower-case hex digits per byte
hex(raw) ==
    [i \in 1..(2 * Len(raw)) |->
        IF i % 2 = 1 THEN HexDigit(raw[(i + 1) \div 2] \div 16)
        ELSE HexDigit(raw[i \div 2] % 16)]

\* bytes.fromhex(text)
fromhex(text) ==
    [i \in 1..(Len(text) \div 2) |->
        HexValue(text[2 * i - 1]) * 16 + HexValue(text[2 * i])]

\* hashlib.sha1(data).hexdigest()
hexdigest(data) == hex(sha1_digest(data))

\* zlib.compress(data), as it is found in a file; writes counts how often this
\* program opened the file "wb" and wrote it
NoObjects == [id \in {} |-> [z |-> TRUE, data |-> <<>>, writes |-> 0]]

\* os.makedirs(object_dir, exist_ok=True); open(object_path, "wb"); f.write(zlib.compress(data))
write_object(objs, sha, data) ==
    [id \in DOMAIN objs \cup {sha} |->
        IF id = sha
        THEN [z |-> TRUE, data |-> data,
              writes |-> (IF sha \in DOMAIN objs THEN objs[sha].writes ELSE 0) + 1]
        ELSE objs[id]]

\* data.find(byte): the 0-based index of the first occurrence, or -1
Find(data, byte) ==
    IF \E i \in 1..Len(data) : data[i] = byte
    THEN (CHOOSE i \in 1..Len(data) :
             /\ data[i] = byte
             /\ \A j \in 1..(i - 1) : data[j] # byte) - 1
    ELSE -1

\* data[:idx] for idx >= -1
PrefixTo(data, idx) ==
    IF idx >= 0 THEN SubSeq(data, 1, idx) ELSE SubSeq(data, 1, Len(data) - 1)

\* bytes that str.split() treats as separators
Whitespace == {9, 10, 11, 12, 13, 32}

\* index of the first byte of s that is / is not a separator, Len(s) + 1 if none
FirstWhitespace(s) ==
    IF \E i \in 1..Len(s) : s[i] \in Whitespace
    THEN CHOOSE i \in 1..Len(s) :
             s[i] \in Whitespace /\ \A j \in 1..(i - 1) : s[j] \notin Whitespace
    ELSE Len(s) + 1

FirstNonWhitespace(s) ==
    IF \E i \in 1..Len(s) : s[i] \notin Whitespace
    THEN CHOOSE i \in 1..Len(s) :
             s[i] \notin Whitespace /\ \A j \in 1..(i - 1) : s[j] \in Whitespace
    ELSE Len(s) + 1

SkipWhitespace(s) == SubSeq(s, FirstNonWhitespace(s), Len(s))

TakeToken(s) == SubSeq(s, 1, FirstWhitespace(s) - 1)

\* header.split(): the list of whitespace-separated tokens
RECURSIVE Split(_)
Split(s) ==
    LET t == SkipWhitespace(s)
        tok == TakeToken(t)
    IN  IF t = <<>> THEN <<>>
        ELSE <<tok>> \o Split(SubSeq(t, Len(tok) + 1, Len(t)))

\* read_object(sha): no check of the kind token or of the declared length
read_object(objs, sha) ==
    IF sha \notin DOMAIN objs
    THEN [status |-> "FileNotFoundError", obj_type |-> <<>>, content |-> <<>>]
    ELSE IF ~objs[sha].z
    THEN [status |-> "zlib.error", obj_type |-> <<>>, content |-> <<>>]
    ELSE LET decompressed == objs[sha].data
             null_idx == Find(decompressed, 0)
             header == PrefixTo(decompressed, null_idx)
             content == SubSeq(decompressed, null_idx + 2, Len(decompressed))
             tokens == Split(header)
         IN  IF tokens = <<>>
             THEN [status |-> "IndexError", obj_type |-> <<>>, content |-> <<>>]
             ELSE [status |-> "ok", obj_type |-> tokens[1], content |-> content]

----------------------------------------------------------------------------
(* write_tree.  A directory is a set of entries with distinct names; an    *)
(* entry is a file (content, executable bit) or a directory (children).    *)

File(name, exec, content) ==
    [name |-> name, is_dir |-> FALSE, exec |-> exec, content |-> content, children |-> {}]
Dir(name, children) ==
    [name |-> name, is_dir |-> TRUE, exec |-> FALSE, content |-> <<>>, children |-> children]

dot_git == <<46, 103, 105, 116>>                 \* ".git"
mode_dir == <<52, 48, 48, 48, 48>>               \* b"40000"
mode_exec == <<49, 48, 48, 55, 53, 53>>          \* b"100755"
mode_file == <<49, 48, 48, 54, 52, 52>>          \* b"100644"

\* a < b for two names (str comparison; the names are ASCII)
RECURSIVE BytesLess(_, _)
BytesLess(a, b) ==
    IF b = <<>> THEN FALSE
    ELSE IF a = <<>> THEN TRUE
    ELSE IF Head(a) # Head(b) THEN Head(a) < Head(b)
    ELSE BytesLess(Tail(a), Tail(b))

\* key=lambda e: e.name
sort_key(e) == e.name

\* sorted(it, key=lambda e: e.name)
RECURSIVE sorted_entries(_)
sorted_entries(S) ==
    IF S = {} THEN <<>>
    ELSE LET first == CHOOSE e \in S :
                        \A f \in S \ {e} : BytesLess(sort_key(e), sort_key(f))
         IN  <<first>> \o sorted_entries(S \ {first})

\* b"".join(mode + b" " + name + b"\x00" + sha for mode, name, sha in entries)
RECURSIVE join_entries(_)
join_entries(entries) ==
    IF entries = <<>> THEN <<>>
    ELSE LET e == Head(entries)
         IN  e[1] \o <<32>> \o e[2] \o <<0>> \o e[3] \o join_entries(Tail(entries))

\* write_tree(directory) on the store objs: the store afterwards, the tree id, and
\* the entry lists of the trees written (innermost first, the root's last)
RECURSIVE write_tree(_, _)
RECURSIVE write_tree_loop(_, _, _, _)
write_tree_loop(todo, objs, entries, trees) ==
    IF todo = <<>>
    THEN [objs |-> objs, entries |-> entries, trees |-> trees]
    ELSE LET entry == Head(todo)
         IN  IF entry.name = dot_git
             THEN write_tree_loop(Tail(todo), objs, entries, trees)
             ELSE IF entry.is_dir
             THEN LET sub == write_tree(entry.children, objs)
                  IN  write_tree_loop(Tail(todo), sub.objs,
                          Append(entries, <<mode_dir, entry.name, fromhex(sub.sha)>>),
                          trees \o sub.trees)
             ELSE LET mode == IF entry.exec THEN mode_exec ELSE mode_file
                      blob_object == object_data(b_blob, entry.content)
                      hex_sha == hexdigest(blob_object)
                  IN  write_tree_loop(Tail(todo), write_object(objs, hex_sha, blob_object),
                          Append(entries, <<mode, entry.name, fromhex(hex_sha)>>),
                          trees)

write_tree(directory, objs) ==
    LET r == write_tree_loop(sorted_entries(directory), objs, <<>>, <<>>)
        tree_object == object_data(b_tree, join_entries(r.entries))
        tree_hex_sha == hexdigest(tree_object)
    IN  [objs |-> write_object(r.objs, tree_hex_sha, tree_object),
         sha |-> tree_hex_sha,
         trees |-> Append(r.trees, r.entries)]

----------------------------------------------------------------------------
(* Pack records.  A pack is a sequence of elements: the 12-byte header     *)
(* (magic, version, object count) and the object records.  A record is its *)
(* type/size header bytes, then (type 6) the bytes of the negative offset  *)
(* or (type 7) the raw digest of the base, then a deflate stream.  The     *)
(* stream is a container: z.ok says whether zlib accepts it, z.out is what *)
(* it inflates to and z.clen the number of bytes it occupies.  Offsets are *)
(* byte offsets: the decoder is only ever started on the first byte of an  *)
(* element, so data[offset] is looked up as the element starting there.    *)

PackHeaderLen == 12
DigestLen == 20

PackHeader(magic, version, num_objects) ==
    [t |-> "header", magic |-> magic, version |-> version, num_objects |-> num_objects,
     hdr |-> <<>>, ofs |-> <<>>, ref |-> <<>>,
     z |-> [ok |-> TRUE, out |-> <<>>, clen |-> 0]]

PackRecord(hdr, ofs, ref, z) ==
    [t |-> "record", magic |-> <<>>, version |-> 0, num_objects |-> 0,
     hdr |-> hdr, ofs |-> ofs, ref |-> ref, z |-> z]

\* zlib stream of out, clen bytes long; and clen bytes zlib rejects
Deflated(out, clen) == [ok |-> TRUE, out |-> out, clen |-> clen]
NotDeflate(clen) == [ok |-> FALSE, out |-> <<>>, clen |-> clen]

\* read_size_encoding(data, offset): type from bits 4..6 of the first byte, size
\* from its low 4 bits and 7 more bits per continuation byte
RECURSIVE read_size_loop(_, _, _, _, _)
read_size_loop(data, byte, size, shift, offset) ==
    IF ~Bit(byte, 128)
    THEN [ok |-> TRUE, size |-> size, offset |-> offset]
    ELSE IF offset >= Len(data)
    THEN [ok |-> FALSE, size |-> 0, offset |-> offset]
    ELSE LET b == At(data, offset)
         IN  read_size_loop(data, b, size + (b % 128) * shift, shift * 128, offset + 1)

read_size_encoding(data, offset) ==
    LET byte == At(data, offset)
        r == read_size_loop(data, byte, byte % 16, 16, offset + 1)
    IN  [ok |-> r.ok, obj_type |-> (byte \div 16) % 8, size |-> r.size, offset |-> r.offset]

\* the negative offset of an offset-delta, read from its first byte on
RECURSIVE read_neg_offset_loop(_, _, _)
read_neg_offset_loop(data, neg_offset, offset) ==
    IF ~Bit(At(data, offset - 1), 128)
    THEN [ok |-> TRUE, neg_offset |-> neg_offset, offset |-> offset]
    ELSE IF offset >= Len(data)
    THEN [ok |-> FALSE, neg_offset |-> 0, offset |-> offset]
    ELSE read_neg_offset_loop(data, (neg_offset + 1) * 128 + (At(data, offset) % 128),
                              offset + 1)

read_neg_offset(data) == read_neg_offset_loop(data, At(data, 0) % 128, 1)

\* number of bytes an element occupies in the pack
ElementLen(e) ==
    IF e.t = "header" THEN PackHeaderLen
    ELSE Len(e.hdr) + Len(e.ofs) + (IF e.ref # <<>> THEN DigestLen ELSE 0) + e.z.clen

RECURSIVE ElementStart(_, _)
ElementStart(data, k) ==
    IF k <= 1 THEN 0 ELSE ElementStart(data, k - 1) + ElementLen(data[k - 1])

\* the index of the element whose first byte is data[offset], 0 if there is none
ElementAt(data, offset) ==
    IF \E k \in 1..Len(data) : ElementStart(data, k) = offset
    THEN CHOOSE k \in 1..Len(data) : ElementStart(data, k) = offset
    ELSE 0

OBJ_COMMIT == 1
OBJ_TREE == 2
OBJ_BLOB == 3
OBJ_TAG == 4
OBJ_OFS_DELTA == 6
OBJ_REF_DELTA == 7

type_map ==
    [t \in {OBJ_COMMIT, OBJ_TREE, OBJ_BLOB, OBJ_TAG} |->
        CASE t = OBJ_COMMIT -> b_commit
          [] t = OBJ_TREE -> b_tree
          [] t = OBJ_BLOB -> b_blob
          [] t = OBJ_TAG -> b_tag]

b_tree_sp == <<116, 114, 101, 101, 32>>
b_parent_sp == <<112, 97, 114, 101, 110, 116, 32>>

\* the type name given to an object whose type code is not in type_map
guessed_type(content) ==
    IF \/ StartsWith(content, b_tree_sp)
       \/ (Contains(Slice(content, 0, 100), 0) /\ Contains(Slice(content, 0, 10), 32))
    THEN b_tree
    ELSE IF StartsWith(content, b_parent_sp) \/ StartsWith(content, b_tree_sp)
    THEN b_commit
    ELSE b_blob

type_name(obj_type, content) ==
    IF obj_type \in DOMAIN type_map THEN type_map[obj_type] ELSE guessed_type(content)

UnpackFailed(status, objects_by_offset, objs) ==
    [status |-> status, offset |-> 0, sha1 |-> <<>>,
     objects_by_offset |-> objects_by_offset, objs |-> objs,
     start_offset |-> 0, obj_type |-> 0, type_name |-> <<>>,
     base_offset |-> -1, base_sha |-> <<>>]

\* (mutation of unpack_store: a resolved delta is not recorded in the offset map)
unpack_store_full_only(start_offset, obj_type, content, offset, base_offset, base_sha, objects_by_offset, objs) ==
    LET obj_type_name == type_name(obj_type, content)
        obj_data == object_data(obj_type_name, content)
        sha1 == hexdigest(obj_data)
    IN  [status |-> "ok", offset |-> offset, sha1 |-> sha1,
         objects_by_offset |->
             IF obj_type \in {OBJ_OFS_DELTA, OBJ_REF_DELTA} THEN objects_by_offset
             ELSE [o \in DOMAIN objects_by_offset \cup {start_offset} |->
                      IF o = start_offset THEN content ELSE objects_by_offset[o]],
         objs |-> write_object(objs, sha1, obj_data),
         start_offset |-> start_offset, obj_type |-> obj_type,
         type_name |-> obj_type_name,
         base_offset |-> base_offset, base_sha |-> base_sha]

\* the tail of unpack_object: record the content under start_offset, name the
\* type, write the object file, return (offset, sha1)
unpack_store(start_offset, obj_type, content, offset, base_offset, base_sha, objects_by_offset, objs) ==
    LET obj_type_name == type_name(obj_type, content)
        obj_data == object_data(obj_type_name, content)
        sha1 == hexdigest(obj_data)
    IN  [status |-> "ok", offset |-> offset, sha1 |-> sha1,
         objects_by_offset |->
             [o \in DOMAIN objects_by_offset \cup {start_offset} |->
                 IF o = start_offset THEN content ELSE objects_by_offset[o]],
         objs |-> write_object(objs, sha1, obj_data),
         start_offset |-> start_offset, obj_type |-> obj_type,
         type_name |-> obj_type_name,
         base_offset |-> base_offset, base_sha |-> base_sha]

\* unpack_object(data, offset, objects_by_offset) on the store objs
unpack_object(data, offset, objects_by_offset, objs) ==
    LET start_offset == offset
        k == ElementAt(data, offset)
        rec == data[k]
        h == read_size_encoding(rec.hdr, 0)
        after == start_offset + ElementLen(rec)
    IN  IF k = 0
        THEN UnpackFailed("IndexError", objects_by_offset, objs)
        ELSE IF h.obj_type = OBJ_OFS_DELTA
        THEN LET base_offset == start_offset - read_neg_offset(rec.ofs).neg_offset
             IN  IF base_offset \notin DOMAIN objects_by_offset
                 THEN UnpackFailed("KeyError", objects_by_offset, objs)
                 ELSE IF ~rec.z.ok
                 THEN UnpackFailed("zlib.error", objects_by_offset, objs)
                 ELSE LET r == apply_delta(objects_by_offset[base_offset], rec.z.out)
                      IN  IF r.status # "ok"
                          THEN UnpackFailed(r.status, objects_by_offset, objs)
                          ELSE unpack_store(start_offset, h.obj_type, r.result, after,
                                            base_offset, <<>>, objects_by_offset, objs)
        ELSE IF h.obj_type = OBJ_REF_DELTA
        THEN LET base_sha_hex == hex(rec.ref)
             IN  IF base_sha_hex \notin DOMAIN objs
                 THEN UnpackFailed("FileNotFoundError", objects_by_offset, objs)
                 ELSE IF ~objs[base_sha_hex].z \/ ~rec.z.ok
                 THEN UnpackFailed("zlib.error", objects_by_offset, objs)
                 ELSE LET decompressed == objs[base_sha_hex].data
                          null_idx == Find(decompressed, 0)
                          base_data == SubSeq(decompressed, null_idx + 2, Len(decompressed))
                          r == apply_delta(base_data, rec.z.out)
                      IN  IF r.status # "ok"
                          THEN UnpackFailed(r.status, objects_by_offset, objs)
                          ELSE unpack_store(start_offset, h.obj_type, r.result, after,
                                            -1, base_sha_hex, objects_by_offset, objs)
        ELSE IF ~rec.z.ok
        THEN UnpackFailed("zlib.error", objects_by_offset, objs)
        ELSE unpack_store(start_offset, h.obj_type, rec.z.out, after,
                          -1, <<>>, objects_by_offset, objs)


----------------------------------------------------------------------------
(* Pkt-lines.  A frame is [length, payload]: length is the value of the 4  *)
(* hex digits (0 for the flush packet "0000"), payload the bytes after     *)
(* them.  In the side-band response a payload is its band byte and, for    *)
(* band 1, the pack elements it carries.                                   *)

Frame(payload) == [length |-> 4 + Len(payload), payload |-> payload]
FlushFrame == [length |-> 0, payload |-> <<>>]

\* parse_pkt_line(data): None (flush) or the payload, per frame, up to a frame
\* whose length is 1..3
RECURSIVE parse_pkt_line(_)
parse_pkt_line(frames) ==
    IF frames = <<>> THEN <<>>
    ELSE LET f == Head(frames)
         IN  IF f.length = 0
             THEN <<[none |-> TRUE, data |-> <<>>]>> \o parse_pkt_line(Tail(frames))
             ELSE IF f.length < 4 THEN <<>>
             ELSE <<[none |-> FALSE, data |-> f.payload]>> \o parse_pkt_line(Tail(frames))

\* s.strip()
StripRight(s) ==
    IF \E i \in 1..Len(s) : s[i] \notin Whitespace
    THEN SubSeq(s, 1, CHOOSE i \in 1..Len(s) :
                          s[i] \notin Whitespace
                          /\ \A j \in (i + 1)..Len(s) : s[j] \in Whitespace)
    ELSE <<>>

Strip(s) == StripRight(SkipWhitespace(s))

\* s.split('\x00')[0]
BeforeNul(s) == IF Find(s, 0) < 0 THEN s ELSE SubSeq(s, 1, Find(s, 0))

b_HEAD == <<72, 69, 65, 68>>

\* the loop over the advertised lines: head_sha is the id of the last line whose
\* ref name is HEAD, <<>> (None) if there is none
RECURSIVE find_head(_, _)
find_head(lines, found) ==
    IF lines = <<>> THEN found
    ELSE LET line == Head(lines)
             parts == Split(BeforeNul(Strip(line.data)))
         IN  IF line.none \/ StartsWith(line.data, <<35>>)
             THEN find_head(Tail(lines), found)
             ELSE IF Len(parts) >= 2 /\ parts[2] = b_HEAD
             THEN find_head(Tail(lines), parts[1])
             ELSE find_head(Tail(lines), found)

RECURSIVE ElementsLen(_)
ElementsLen(elements) ==
    IF elements = <<>> THEN 0 ELSE ElementLen(Head(elements)) + ElementsLen(Tail(elements))

PackFrame(elements) == [length |-> 5 + ElementsLen(elements), band |-> 1, data |-> elements]
TextFrame(band, text) == [length |-> 5 + Len(text), band |-> band, data |-> text]
SidebandFlush == [length |-> 0, band |-> 0, data |-> <<>>]

\* parse_sideband_data(data): the data of the band-1 frames, concatenated; bands
\* 2 and 3 are printed, any other band is skipped
RECURSIVE parse_sideband_data(_)
parse_sideband_data(frames) ==
    IF frames = <<>> THEN <<>>
    ELSE LET f == Head(frames)
         IN  IF f.length = 0 THEN parse_sideband_data(Tail(frames))
             ELSE IF f.length < 4 THEN <<>>
             ELSE (IF f.length > 4 /\ f.band = 1 THEN f.data ELSE <<>>)
                  \o parse_sideband_data(Tail(frames))

b_PACK == <<80, 65, 67, 75>>
b_want == <<119, 97, 110, 116, 32>>
b_caps == <<32, 109, 117, 108, 116, 105, 95, 97, 99, 107, 95, 100, 101, 116, 97, 105, 108, 101, 100, 32, 115, 105, 100, 101, 45, 98, 97, 110, 100, 45, 54, 52, 107, 32, 116, 104, 105, 110, 45, 112, 97, 99, 107, 32, 111, 102, 115, 45, 100, 101, 108, 116, 97>>
b_done == <<100, 111, 110, 101, 10>>
b_head_ref == <<114, 101, 102, 58, 32, 114, 101, 102, 115, 47, 104, 101, 97, 100, 115, 47, 109, 97, 105, 110, 10>>

\* want_pkt + b"0000" + b"0009done\n"
upload_request(sha) ==
    <<Frame(b_want \o sha \o b_caps \o <<10>>), FlushFrame, Frame(b_done)>>

\* the tree id named by the first line of a commit that starts with "tree ":
\* [found, ok, tree_sha]; ok is FALSE when line.split()[1] does not exist
RECURSIVE LinesOf(_)
LinesOf(content) ==
    IF Find(content, 10) < 0 THEN <<content>>
    ELSE <<SubSeq(content, 1, Find(content, 10))>>
         \o LinesOf(SubSeq(content, Find(content, 10) + 2, Len(content)))

RECURSIVE find_tree_line(_)
find_tree_line(lines) ==
    IF lines = <<>> THEN [found |-> FALSE, ok |-> TRUE, tree_sha |-> <<>>]
    ELSE IF StartsWith(Head(lines), b_tree_sp)
    THEN LET parts == Split(Head(lines))
         IN  IF Len(parts) >= 2 THEN [found |-> TRUE, ok |-> TRUE, tree_sha |-> parts[2]]
             ELSE [found |-> TRUE, ok |-> FALSE, tree_sha |-> <<>>]
    ELSE find_tree_line(Tail(lines))

\* checkout_commit(commit_sha): "done", or the exception that ends it.  The
\* commit and its tree are read; the entries of the tree are not materialised.
checkout_commit(objs, commit_sha) ==
    LET c == read_object(objs, commit_sha)
        t == find_tree_line(LinesOf(c.content))
        tree == read_object(objs, t.tree_sha)
    IN  IF c.status # "ok" THEN c.status
        ELSE IF ~t.found THEN "ValueError"
        ELSE IF ~t.ok THEN "IndexError"
        ELSE IF t.tree_sha = <<>> THEN "ValueError"
        ELSE IF tree.status # "ok" THEN tree.status
        ELSE "done"


----------------------------------------------------------------------------
(* The plumbing commands of main() that touch the store, run one after     *)
(* another on the same repository.                                         *)

MaxCmds == 2   \* commands run in one behaviour

NoSha == <<>>

Out(cmd, status, sha, obj_type, content, trees) ==
    [cmd |-> cmd, status |-> status, sha |-> sha, obj_type |-> obj_type,
     content |-> content, trees |-> trees]

NoOut == Out("none", "none", NoSha, <<>>, <<>>, <<>>)

b_hello == <<104, 101, 108, 108, 111>>
b_x == <<120>>

\* contents of the file given to hash-object
FileContentSet == {b_hello, b_x}

\* candidate entries of the snapshotted directory
name_a == <<97>>               \* "a"
name_a_b == <<97, 46, 98>>     \* "a.b"
name_b == <<98>>               \* "b"
name_c == <<99>>               \* "c"

EntrySet ==
    { Dir(name_a, {File(name_b, FALSE, b_x)}),
      File(name_a_b, FALSE, <<>>),
      File(name_c, TRUE, b_hello),
      Dir(dot_git, {}),
      Dir(name_b, {Dir(name_a, {}), File(name_a_b, FALSE, b_x)}) }

WorkdirSet == SUBSET EntrySet

\* object files found in the repository when the first command runs
hello_object == object_data(b_blob, b_hello)
StoredFile(data) == [z |-> TRUE, data |-> data, writes |-> 0]
OneObject(sha, file) == [id \in {sha} |-> file]

InitialObjectsSet ==
    { NoObjects,
      OneObject(hexdigest(hello_object), StoredFile(hello_object)),
      \* b"blob 9\x00hello": the declared length is not the payload length
      OneObject(hexdigest(hello_object),
                StoredFile(b_blob \o <<32, 57, 0>> \o b_hello)),
      \* b"blub 1\x00x": the kind token is none of the four
      OneObject(hexdigest(b_x), StoredFile(<<98, 108, 117, 98, 32, 49, 0>> \o b_x)),
      \* b"\x00x": an empty header
      OneObject(hexdigest(b_x), StoredFile(<<0>> \o b_x)),
      \* not a zlib stream
      OneObject(hexdigest(b_x), [z |-> FALSE, data |-> b_x, writes |-> 0]) }

MissingSha == hexdigest(<<63>>)

StoreIdle ==
    /\ objects = NoObjects
    /\ workdir = {}
    /\ cmdOut = NoOut
    /\ nCmds = 0

StoreInit ==
    /\ objects \in InitialObjectsSet
    /\ workdir \in WorkdirSet
    /\ cmdOut = NoOut
    /\ nCmds = 0

\* hash-object -w <path>
HashObject ==
    /\ nCmds < MaxCmds
    /\ \E content \in FileContentSet :
        LET blob_object == object_data(b_blob, content)
            sha1 == hexdigest(blob_object)
        IN  /\ objects' = write_object(objects, sha1, blob_object)
            /\ cmdOut' = Out("hash-object", "ok", sha1, <<>>, <<>>, <<>>)
    /\ nCmds' = nCmds + 1
    /\ UNCHANGED <<workdir, dvars, cvars>>

\* write-tree
WriteTree ==
    /\ nCmds < MaxCmds
    /\ LET r == write_tree(workdir, objects)
       IN  /\ objects' = r.objs
           /\ cmdOut' = Out("write-tree", "ok", r.sha, <<>>, <<>>, r.trees)
    /\ nCmds' = nCmds + 1
    /\ UNCHANGED <<workdir, dvars, cvars>>

b_author == <<97, 117, 116, 104, 111, 114, 32, 84, 101, 115, 116, 32, 85, 115, 101, 114, 32, 60, 116, 101, 115, 116, 46, 117, 115, 101, 114, 64, 101, 120, 97, 109, 112, 108, 101, 46, 99, 111, 109, 62, 32>>
b_committer == <<99, 111, 109, 109, 105, 116, 116, 101, 114, 32, 84, 101, 115, 116, 32, 85, 115, 101, 114, 32, 60, 116, 101, 115, 116, 46, 117, 115, 101, 114, 64, 101, 120, 97, 109, 112, 108, 101, 46, 99, 111, 109, 62, 32>>
b_timezone == <<43, 48, 48, 48, 48>>

\* argv of commit-tree, and int(time.time())
ArgShaSet == {<<84>>}
ParentSet == {<<>>, <<80>>}
MessageSet == {<<>>, <<109>>}
TimeSet == {1700000000, 1700000001}

\* "\n".join(lines) + "\n", encoded
commit_content(tree_sha, parent_sha, message, timestamp) ==
    b_tree_sp \o tree_sha \o <<10>>
    \o (IF parent_sha # <<>> THEN b_parent_sp \o parent_sha \o <<10>> ELSE <<>>)
    \o b_author \o Decimal(timestamp) \o <<32>> \o b_timezone \o <<10>>
    \o b_committer \o Decimal(timestamp) \o <<32>> \o b_timezone \o <<10>>
    \o <<10>>
    \o message \o <<10>>

\* commit-tree <tree_sha> [-p <parent_sha>] -m <message>
CommitTree ==
    /\ nCmds < MaxCmds
    /\ \E tree_sha \in ArgShaSet, parent_sha \in ParentSet,
          message \in MessageSet, timestamp \in TimeSet :
        IF message = <<>>
        THEN /\ cmdOut' = Out("commit-tree", "ValueError", NoSha, <<>>, <<>>, <<>>)
             /\ UNCHANGED objects
        ELSE LET commit_object ==
                     object_data(b_commit,
                                 commit_content(tree_sha, parent_sha, message, timestamp))
                 hex_sha == hexdigest(commit_object)
             IN  /\ objects' = write_object(objects, hex_sha, commit_object)
                 /\ cmdOut' = Out("commit-tree", "ok", hex_sha, <<>>, <<>>, <<>>)
    /\ nCmds' = nCmds + 1
    /\ UNCHANGED <<workdir, dvars, cvars>>

\* a call read_object(sha)
ReadObject ==
    /\ nCmds < MaxCmds
    /\ \E sha \in DOMAIN objects \cup {MissingSha} :
        LET r == read_object(objects, sha)
        IN  cmdOut' = Out("read_object", r.status, sha, r.obj_type, r.content, <<>>)
    /\ nCmds' = nCmds + 1
    /\ UNCHANGED <<objects, workdir, dvars, cvars>>

----------------------------------------------------------------------------
(* clone_repository, one action per step.  The server's two responses are  *)
(* drawn when they are read.                                               *)

MaxRecords == 3   \* most records in a drawn pack

\* the repository served: a blob, a tree holding it, a commit of the tree
b_hi == <<104, 105>>
blob_hi_object == object_data(b_blob, b_hi)
tree_content == mode_file \o <<32, 102, 0>> \o sha1_digest(blob_hi_object)
tree_object == object_data(b_tree, tree_content)
commit_text == b_tree_sp \o hexdigest(tree_object) \o <<10>>
commit_object == object_data(b_commit, commit_text)
served_head == hexdigest(commit_object)

b_service == <<35, 32, 115, 101, 114, 118, 105, 99, 101, 61, 103, 105, 116, 45, 117, 112, 108, 111, 97, 100, 45, 112, 97, 99, 107, 10>>
b_sp_HEAD == <<32, 72, 69, 65, 68>>
b_sp_main == <<32, 114, 101, 102, 115, 47, 104, 101, 97, 100, 115, 47, 109, 97, 105, 110>>

service_line == Frame(b_service)
head_line == Frame(served_head \o b_sp_HEAD \o <<0>> \o b_caps \o <<10>>)
main_line == Frame(served_head \o b_sp_main \o <<10>>)

\* bodies of the info/refs response: HEAD advertised; only a branch advertised;
\* nothing advertised
AdvertSet ==
    { <<service_line, FlushFrame, head_line, main_line, FlushFrame>>,
      <<service_line, FlushFrame, main_line, FlushFrame>>,
      <<service_line, FlushFrame, FlushFrame>> }

\* the type/size header of a record
EncodeTypeSize(t, n) ==
    IF n < 16 THEN <<t * 16 + n>>
    ELSE <<128 + t * 16 + (n % 16)>> \o EncodeSize(n \div 16)

Object(t, content, clen) ==
    PackRecord(EncodeTypeSize(t, Len(content)), <<>>, <<>>, Deflated(content, clen))
OfsDelta(ofs, delta, clen) ==
    PackRecord(EncodeTypeSize(OBJ_OFS_DELTA, Len(delta)), ofs, <<>>, Deflated(delta, clen))
RefDelta(ref, delta, clen) ==
    PackRecord(EncodeTypeSize(OBJ_REF_DELTA, Len(delta)), <<>>, ref, Deflated(delta, clen))

copy_all == <<Copy(0, 0, FALSE)>>
copy_all_insert == <<Copy(0, 0, FALSE), Insert(<<32, 0>>)>>

\* records a pack is drawn from; the comment gives the record's length in bytes
RecordSet ==
    { Object(OBJ_COMMIT, commit_text, 3),                                  \* 5
      Object(OBJ_TREE, tree_content, 3),                                   \* 5
      Object(OBJ_BLOB, b_hi, 3),                                           \* 4
      Object(OBJ_BLOB, b_x, 127),                                          \* 128
      Object(5, b_hi, 3),                                                  \* 4
      OfsDelta(<<5>>, BuildDelta(commit_text, copy_all, "exact"), 3),      \* 5
      OfsDelta(<<4>>, BuildDelta(b_hi, copy_all_insert, "exact"), 3),      \* 5
      OfsDelta(<<0>>, BuildDelta(b_hi, copy_all, "exact"), 3),             \* 5
      OfsDelta(<<128, 0>>, BuildDelta(b_x, copy_all, "exact"), 3),         \* 6
      RefDelta(sha1_digest(blob_hi_object), BuildDelta(b_hi, copy_all, "exact"), 3) }

PackOf(records) == <<PackHeader(b_PACK, 2, Len(records))>> \o records

PackSet ==
    {PackOf(records) : records \in SeqsUpTo(RecordSet, MaxRecords)}
    \cup { <<PackHeader(b_PACK, 2, 1)>>,      \* one object announced, none sent
           \* one object announced, two sent
           <<PackHeader(b_PACK, 2, 1), Object(OBJ_COMMIT, commit_text, 3),
             Object(OBJ_TREE, tree_content, 3)>>,
           <<PackHeader(<<>>, 2, 0)>> }       \* not a pack

b_NAK == <<78, 65, 75, 10>>
b_progress == <<67, 111, 117, 110, 116, 105, 110, 103, 32, 111, 98, 106, 101, 99, 116, 115, 58, 32, 51, 44, 32, 100, 111, 110, 101, 46, 10>>
b_fatal == <<102, 97, 116, 97, 108, 58, 32, 97, 98, 111, 114, 116, 105, 110, 103, 10>>

RECURSIVE PackFrames(_)
PackFrames(pack) ==
    IF pack = <<>> THEN <<>> ELSE <<PackFrame(<<Head(pack)>>)>> \o PackFrames(Tail(pack))

\* bodies of the upload-pack response: "NAK", progress on band 2, the pack on
\* band 1, one element per frame; with or without an error on band 3, before or
\* after the pack
ResponseSet ==
    { <<TextFrame(Head(b_NAK), Tail(b_NAK)), TextFrame(2, b_progress)>>
      \o (IF band3 = "before" THEN <<TextFrame(3, b_fatal)>> ELSE <<>>)
      \o PackFrames(pack)
      \o (IF band3 = "after" THEN <<TextFrame(3, b_fatal)>> ELSE <<>>)
      \o <<SidebandFlush>> : pack \in PackSet, band3 \in {"none", "before", "after"} }

\* objects found in the clone directory: none, or the blob the thin pack refers to
CloneObjectsSet ==
    { NoObjects,
      OneObject(hexdigest(blob_hi_object), StoredFile(blob_hi_object)) }

NoMap == [o \in {} |-> <<>>]

CloneIdle ==
    /\ pc = "idle"
    /\ refs_data = <<>>
    /\ head_sha = <<>>
    /\ request_body = <<>>
    /\ pack_response = <<>>
    /\ pack_data = <<>>
    /\ clone_num_objects = 0
    /\ clone_offset = 0
    /\ clone_by_offset = NoMap
    /\ unpacked = <<>>
    /\ head_file = <<>>
    /\ ref_file = <<>>
    /\ worktree = "none"
    /\ exit = "running"

CloneInit ==
    /\ pc = "discover"
    /\ refs_data = <<>>
    /\ head_sha = <<>>
    /\ request_body = <<>>
    /\ pack_response = <<>>
    /\ pack_data = <<>>
    /\ clone_num_objects = 0
    /\ clone_offset = 0
    /\ clone_by_offset = NoMap
    /\ unpacked = <<>>
    /\ head_file = <<>>
    /\ ref_file = <<>>
    /\ worktree = "none"
    /\ exit = "running"
    /\ objects \in CloneObjectsSet
    /\ workdir = {}
    /\ cmdOut = NoOut
    /\ nCmds = 0

\* Step 1: GET info/refs, parse the pkt-lines, find HEAD; without a HEAD the
\* function prints "Error: Could not find HEAD" and returns
Discover ==
    /\ pc = "discover"
    /\ \E data \in AdvertSet :
        LET found == find_head(parse_pkt_line(data), <<>>)
        IN  /\ refs_data' = data
            /\ head_sha' = found
            /\ IF found = <<>>
               THEN pc' = "exited" /\ exit' = "returned"
               ELSE pc' = "request" /\ exit' = exit
    /\ UNCHANGED <<request_body, pack_response, pack_data, clone_num_objects, clone_offset,
                   clone_by_offset, unpacked, head_file, ref_file, worktree>>
    /\ UNCHANGED <<dvars, objects, svars>>

\* Step 2: POST the want/done request and read the response
Request ==
    /\ pc = "request"
    /\ request_body' = upload_request(head_sha)
    /\ \E response \in ResponseSet : pack_response' = response
    /\ pc' = "sideband"
    /\ UNCHANGED <<refs_data, head_sha, pack_data, clone_num_objects, clone_offset,
                   clone_by_offset, unpacked, head_file, ref_file, worktree, exit>>
    /\ UNCHANGED <<dvars, objects, svars>>

\* pack_data = parse_sideband_data(pack_response)
Sideband ==
    /\ pc = "sideband"
    /\ pack_data' = parse_sideband_data(pack_response)
    /\ pc' = "pack_header"
    /\ UNCHANGED <<refs_data, head_sha, request_body, pack_response, clone_num_objects,
                   clone_offset, clone_by_offset, unpacked, head_file, ref_file, worktree,
                   exit>>
    /\ UNCHANGED <<dvars, objects, svars>>

\* Step 3: the magic is checked (else "Error: Invalid packfile" and return), the
\* version and the object count are read
PackHeaderStep ==
    /\ pc = "pack_header"
    /\ IF pack_data # <<>> /\ Head(pack_data).t = "header" /\ Head(pack_data).magic = b_PACK
       THEN /\ clone_num_objects' = Head(pack_data).num_objects
            /\ clone_offset' = PackHeaderLen
            /\ clone_by_offset' = NoMap
            /\ pc' = "unpack"
            /\ exit' = exit
       ELSE /\ pc' = "exited"
            /\ exit' = "returned"
            /\ UNCHANGED <<clone_num_objects, clone_offset, clone_by_offset>>
    /\ UNCHANGED <<refs_data, head_sha, request_body, pack_response, pack_data, unpacked,
                   head_file, ref_file, worktree>>
    /\ UNCHANGED <<dvars, objects, svars>>

\* one iteration of: for i in range(num_objects): offset, sha = unpack_object(...)
Unpack ==
    /\ pc = "unpack"
    /\ Len(unpacked) < clone_num_objects
    /\ LET r == unpack_object(pack_data, clone_offset, clone_by_offset, objects)
       IN  IF r.status = "ok"
           THEN /\ clone_offset' = r.offset
                /\ clone_by_offset' = r.objects_by_offset
                /\ objects' = r.objs
                /\ unpacked' = Append(unpacked,
                       [start_offset |-> r.start_offset, obj_type |-> r.obj_type,
                        type_name |-> r.type_name, sha1 |-> r.sha1,
                        base_offset |-> r.base_offset, base_sha |-> r.base_sha])
                /\ UNCHANGED <<pc, exit>>
           ELSE /\ pc' = "exited"
                /\ exit' = r.status
                /\ UNCHANGED <<clone_offset, clone_by_offset, objects, unpacked>>
    /\ UNCHANGED <<refs_data, head_sha, request_body, pack_response, pack_data,
                   clone_num_objects, head_file, ref_file, worktree>>
    /\ UNCHANGED <<dvars, svars>>

\* (mutation of WriteHead: .git/HEAD is written without waiting for the loop)
WriteHead_before_ingest ==
    /\ pc = "unpack"
    /\ head_file' = b_head_ref
    /\ pc' = "write_ref"
    /\ UNCHANGED <<refs_data, head_sha, request_body, pack_response, pack_data,
                   clone_num_objects, clone_offset, clone_by_offset, unpacked, ref_file,
                   worktree, exit>>
    /\ UNCHANGED <<dvars, objects, svars>>

\* Step 4: .git/HEAD
WriteHead ==
    /\ pc = "unpack"
    /\ Len(unpacked) = clone_num_objects
    /\ head_file' = b_head_ref
    /\ pc' = "write_ref"
    /\ UNCHANGED <<refs_data, head_sha, request_body, pack_response, pack_data,
                   clone_num_objects, clone_offset, clone_by_offset, unpacked, ref_file,
                   worktree, exit>>
    /\ UNCHANGED <<dvars, objects, svars>>

\* Step 4: .git/refs/heads/main
WriteRef ==
    /\ pc = "write_ref"
    /\ ref_file' = head_sha \o <<10>>
    /\ pc' = "checkout"
    /\ UNCHANGED <<refs_data, head_sha, request_body, pack_response, pack_data,
                   clone_num_objects, clone_offset, clone_by_offset, unpacked, head_file,
                   worktree, exit>>
    /\ UNCHANGED <<dvars, objects, svars>>

\* Step 5: checkout_commit(head_sha), then "Successfully cloned repository"
Checkout ==
    /\ pc = "checkout"
    /\ LET r == checkout_commit(objects, head_sha)
       IN  IF r = "done"
           THEN worktree' = "done" /\ exit' = "success"
           ELSE worktree' = "raised" /\ exit' = r
    /\ pc' = "exited"
    /\ UNCHANGED <<refs_data, head_sha, request_body, pack_response, pack_data,
                   clone_num_objects, clone_offset, clone_by_offset, unpacked, head_file,
                   ref_file>>
    /\ UNCHANGED <<dvars, objects, svars>>

\* the exit code of the process: an uncaught exception gives 1, a return 0
ExitCode == IF exit \in {"running", "success", "returned"} THEN 0 ELSE 1


----------------------------------------------------------------------------
(* Specification SpecDelta: one call of apply_delta on a drawn input.      *)

DeltaIdle ==
    /\ dBase = <<>>
    /\ dDelta = <<>>
    /\ dInstrs = <<>>
    /\ dShape = "idle"
    /\ dRes = [status |-> "none", result |-> <<>>]
    /\ dPc = "idle"

DeltaInit ==
    /\ dBase \in BaseSet
    /\ \/ /\ dInstrs \in SeqsUpTo(InstrSet, MaxInstr)
          /\ dShape \in ShapeSet
          /\ dDelta = BuildDelta(dBase, dInstrs, dShape)
       \/ /\ dInstrs = <<>>
          /\ dShape = "raw"
          /\ dDelta \in RawDeltaSet
    /\ dRes = [status |-> "none", result |-> <<>>]
    /\ dPc = "call"
    /\ StoreIdle
    /\ CloneIdle

\* content = apply_delta(base_data, delta_data)
ApplyDelta ==
    /\ dPc = "call"
    /\ dRes' = apply_delta(dBase, dDelta)
    /\ dPc' = "done"
    /\ UNCHANGED <<dBase, dDelta, dInstrs, dShape>>
    /\ UNCHANGED <<objects, svars, cvars>>

DeltaNext == ApplyDelta

SpecDelta == DeltaInit /\ [][DeltaNext]_vars

----------------------------------------------------------------------------
(* Specification SpecStore: plumbing commands on one repository.           *)

StoreSpecInit == StoreInit /\ DeltaIdle /\ CloneIdle

StoreNext ==
    \/ HashObject
    \/ WriteTree
    \/ CommitTree
    \/ ReadObject

SpecStore == StoreSpecInit /\ [][StoreNext]_vars

----------------------------------------------------------------------------
(* Specification Spec: one run of clone.                                   *)

Init == CloneInit /\ DeltaIdle

Next ==
    \/ Discover
    \/ Request
    \/ Sideband
    \/ PackHeaderStep
    \/ Unpack
    \/ WriteHead
    \/ WriteRef
    \/ Checkout

Spec == Init /\ [][Next]_vars

----------------------------------------------------------------------------
(* Claims.                                                                 *)

\* C2: every call whose header declares a base_size other than len(base), or a
\* result_size other than the length of the produced bytes, ends in an error; a
\* successful return implies both declared sizes matched.
C2_SizesVerified ==
    (dPc = "done" /\ dRes.status = "ok") =>
        /\ DeclaredBaseSize(dDelta) = Len(dBase)
        /\ DeclaredResultSize(dDelta) = Len(dRes.result)

\* C10: for a well-formed delta with correctly declared header sizes, apply_delta
\* returns exactly the concatenation, in instruction order, of the copied base
\* ranges (size 0 meaning 0x10000) and the inserted literals.
C10_DeltaResult ==
    (dPc = "done" /\ dShape = "exact") =>
        dRes = [status |-> "ok", result |-> Expected(dBase, dInstrs)]

\* C10 witness: both header sizes need two bytes (base 300, result 303) and the
\* call has returned the 303 bytes
C10_Witness ==
    /\ dPc = "done"
    /\ dShape = "exact"
    /\ dBase = LongBase
    /\ dInstrs = <<Copy(0, 0, FALSE), Copy(2, 3, TRUE)>>
    /\ Len(dDelta) > 4
    /\ DeclaredResultSize(dDelta) = LongBaseLen + 3
    /\ dRes.status = "ok"
    /\ Len(dRes.result) = LongBaseLen + 3

\* the example of the claim: "abcdefghij", [copy 2,3][insert "XY"][copy 7,3]
C10_Example ==
    (/\ dPc = "done"
     /\ dShape = "exact"
     /\ dBase = ShortBase
     /\ dInstrs = <<Copy(2, 3, FALSE), Insert(<<88, 89>>), Copy(7, 3, FALSE)>>)
    => dRes.result = <<99, 100, 101, 88, 89, 104, 105, 106>>

\* C3: an operation that stores an object whose file already exists leaves that
\* file as it is: same content, not written again.
C3_ExistingFileUntouched ==
    [][\A id \in DOMAIN objects : objects'[id] = objects[id]]_vars

\* a directory entry of a tree compares as if its name ended in "/"
CanonicalKey(e) == IF e[1] = mode_dir THEN e[2] \o <<47>> ELSE e[2]

CanonicalOrder(entries) ==
    \A i \in 1..(Len(entries) - 1) :
        BytesLess(CanonicalKey(entries[i]), CanonicalKey(entries[i + 1]))

\* C5: every tree body written by write-tree lists its entries in canonical
\* order: names byte-wise, a directory compared as if its name ended in "/".
C5_CanonicalTrees ==
    cmdOut.cmd = "write-tree" =>
        \A k \in 1..Len(cmdOut.trees) : CanonicalOrder(cmdOut.trees[k])

ObjectKinds == {b_commit, b_tree, b_blob, b_tag}

\* the decimal number a token spells, -1 if it is not all digits
RECURSIVE ParseDecimal(_, _)
ParseDecimal(tok, acc) ==
    IF tok = <<>> THEN acc
    ELSE IF Head(tok) \notin 48..57 THEN -1
    ELSE ParseDecimal(Tail(tok), acc * 10 + (Head(tok) - 48))

\* the length declared by the header "kind SP decimal_length" before the first NUL
DeclaredLength(data) ==
    LET tokens == Split(PrefixTo(data, Find(data, 0)))
    IN  IF Len(tokens) = 2 /\ tokens[2] # <<>> THEN ParseDecimal(tokens[2], 0) ELSE -1

\* C8: a read that succeeds returns one of the four kinds and a payload of the
\* declared length; any other object file makes the read fail.
C8_ReadChecksHeader ==
    (cmdOut.cmd = "read_object" /\ cmdOut.status = "ok") =>
        /\ cmdOut.obj_type \in ObjectKinds
        /\ DeclaredLength(objects[cmdOut.sha].data) = Len(cmdOut.content)

\* the unpacked entry whose record starts at offset o (0 if none)
EntryAt(o) ==
    IF \E j \in 1..Len(unpacked) : unpacked[j].start_offset = o
    THEN CHOOSE j \in 1..Len(unpacked) : unpacked[j].start_offset = o
    ELSE 0

\* the kind the transitive rule gives entry k: its own type code if that names a
\* kind, else the kind of its base
RECURSIVE KindByBase(_)
KindByBase(k) ==
    LET u == unpacked[k]
    IN  IF u.obj_type \in DOMAIN type_map THEN type_map[u.obj_type]
        ELSE IF u.obj_type = OBJ_OFS_DELTA THEN KindByBase(EntryAt(u.base_offset))
        ELSE IF u.obj_type = OBJ_REF_DELTA THEN TakeToken(objects[u.base_sha].data)
        ELSE u.type_name

\* C1: a resolved offset-delta or ref-delta is stored with the kind of its base,
\* transitively down to the first base with a non-delta type code.
C1_DeltaKindFromBase ==
    \A k \in 1..Len(unpacked) :
        unpacked[k].obj_type \in {OBJ_OFS_DELTA, OBJ_REF_DELTA}
            => unpacked[k].type_name = KindByBase(k)

HasBand3(frames) == \E i \in 1..Len(frames) : frames[i].length > 4 /\ frames[i].band = 3

\* C4: once the response holds a band-3 record, no object is unpacked, no ref
\* file is written, nothing is checked out, and the run ends in an error.
C4_Band3Aborts ==
    HasBand3(pack_response) =>
        /\ unpacked = <<>>
        /\ head_file = <<>>
        /\ ref_file = <<>>
        /\ worktree = "none"
        /\ exit # "success"
        /\ (pc = "exited" => ExitCode # 0)

AdvertisesHead(frames) ==
    \E i \in 1..Len(frames) :
        LET parts == Split(BeforeNul(frames[i].payload))
        IN  frames[i].length >= 4 /\ Len(parts) >= 2 /\ parts[2] = b_HEAD

\* C6: when no advertised line names HEAD, clone ends in an error (nonzero exit),
\* having sent no upload-pack request, written no ref file and checked out nothing.
C6_NoHeadFails ==
    (pc # "discover" /\ ~AdvertisesHead(refs_data)) =>
        /\ request_body = <<>>
        /\ head_file = <<>>
        /\ ref_file = <<>>
        /\ worktree = "none"
        /\ (pc = "exited" => ExitCode # 0)

\* C7: a record whose type code is 0 or 5 is never stored: unpack_object returns
\* for no such record, so no object is written and no offset recorded for it.
C7_UnknownTypeRejected ==
    \A k \in 1..Len(unpacked) : unpacked[k].obj_type \notin {0, 5}

\* the negative offset v of an offset-delta record: v = b & 0x7f, and for each
\* further byte v = ((v + 1) << 7) | (b & 0x7f)
RECURSIVE MsbVarint(_, _, _)
MsbVarint(bytes, i, v) ==
    IF i > Len(bytes) THEN v
    ELSE MsbVarint(bytes, i + 1, (v + 1) * 128 + (bytes[i] % 128))

NegOffsetOf(rec) == MsbVarint(rec.ofs, 2, rec.ofs[1] % 128)

UnpackedOffsets == {unpacked[j].start_offset : j \in 1..Len(unpacked)}

\* the record the decoder is about to read is an offset-delta whose base offset
\* P - v is not the start of a record decoded so far
NextLacksBase ==
    /\ pc = "unpack"
    /\ Len(unpacked) < clone_num_objects
    /\ ElementAt(pack_data, clone_offset) # 0
    /\ LET rec == pack_data[ElementAt(pack_data, clone_offset)]
       IN  /\ (rec.hdr[1] \div 16) % 8 = OBJ_OFS_DELTA
           /\ clone_offset - NegOffsetOf(rec) \notin UnpackedOffsets

ResolvedBasesEarlier ==
    \A k \in 1..Len(unpacked) :
        unpacked[k].obj_type = OBJ_OFS_DELTA =>
            /\ unpacked[k].base_offset < unpacked[k].start_offset
            /\ \E j \in 1..(k - 1) : unpacked[j].start_offset = unpacked[k].base_offset

\* C9: a resolved offset-delta at P has its base at B < P, the start of a record
\* decoded earlier; an offset-delta whose B is no such start (B = P included) is
\* not resolved and fails on the missing key, storing nothing; after each record
\* the offset map holds exactly the start offsets of the records decoded so far.
C9_OffsetBases ==
    [][/\ ResolvedBasesEarlier'
       /\ (DOMAIN clone_by_offset)' = UnpackedOffsets'
       /\ NextLacksBase =>
            /\ exit' = "KeyError"
            /\ unpacked' = unpacked
            /\ objects' = objects
            /\ clone_by_offset' = clone_by_offset]_vars

\* C9 witness: an offset-delta with a two-byte negative offset (v = 128) was
\* resolved against the record 128 bytes before it, and a delta is in the map
C9_Witness ==
    \E k \in 1..Len(unpacked) :
        /\ unpacked[k].obj_type = OBJ_OFS_DELTA
        /\ unpacked[k].base_offset = unpacked[k].start_offset - 128
        /\ unpacked[k].start_offset \in DOMAIN clone_by_offset
        /\ k < Len(unpacked)

\* every record decoded so far has its object file in the store
DecodedStored == \A k \in 1..Len(unpacked) : unpacked[k].sha1 \in DOMAIN objects

\* all the records the pack header announces have been decoded and stored
IngestDone ==
    /\ pack_data # <<>>
    /\ Len(unpacked) = clone_num_objects
    /\ DecodedStored

RefsWritten == head_file = b_head_ref /\ ref_file = head_sha \o <<10>>

\* a step in which unpack_object raises
DecodeFails == pc = "unpack" /\ exit = "running" /\ exit' # "running"

\* C11: the steps of clone happen in the order ref discovery, upload request,
\* side-band demultiplexing, pack ingest, ref write, checkout: the request is sent
\* only once HEAD was found, the pack is extracted only from a received response,
\* records are decoded only from the extracted pack, .git/HEAD and
\* .git/refs/heads/main are written only after all announced records have been
\* decoded and stored, checkout starts only after both ref files are written,
\* and when decoding a record fails no ref file is written and no working-tree
\* file is created, then or later.
C11_StepOrder ==
    [][/\ (request_body' # request_body) => (head_sha # <<>> /\ pack_response = <<>>)
       /\ (pack_response' # pack_response) => (request_body' # <<>> /\ pack_data = <<>>)
       /\ (pack_data' # pack_data) => (pack_response # <<>> /\ unpacked = <<>>)
       /\ (unpacked' # unpacked \/ objects' # objects) =>
              (pack_data # <<>> /\ head_file = <<>> /\ ref_file = <<>> /\ DecodedStored')
       /\ (head_file' # head_file \/ ref_file' # ref_file) =>
              (IngestDone /\ UNCHANGED <<unpacked, objects>> /\ worktree = "none")
       /\ (ref_file' # ref_file) => head_file # <<>>
       /\ (worktree' # worktree) => RefsWritten
       /\ DecodeFails =>
              (head_file' = <<>> /\ ref_file' = <<>> /\ worktree' = "none" /\ pc' = "exited")
       /\ (pc = "exited") => UNCHANGED <<head_file, ref_file, worktree, objects>>]_vars

\* C11 witness: a clone of a pack of three records that ran to the end: the
\* records are stored, both ref files are written, the tree is checked out
C11_Witness ==
    /\ pc = "exited"
    /\ exit = "success"
    /\ clone_num_objects = 3
    /\ IngestDone
    /\ RefsWritten
    /\ worktree = "done"

\* a record failed to decode after another had been stored
C11_FailureWitness ==
    /\ pc = "exited"
    /\ exit \notin {"running", "success", "returned"}
    /\ unpacked # <<>>
    /\ Len(unpacked) < clone_num_objects
    /\ worktree = "none"

====
